---- MODULE Spec2Model ----
(***************************************************************************)
(* Model of the Codat CLI API client (src/src/lib/auth.js, which holds the *)
(* auth helpers and the api client, and src/src/lib/config.js).            *)
(*                                                                         *)
(* One behaviour is one run of the CLI process: a command calls one of     *)
(* get / post / put / del / getAllPages, the remote service answers each   *)
(* request in any way it likes (a page, an error status with a body, no    *)
(* answer at all), and the process either returns to the command code or   *)
(* is ended by process.exit.                                               *)
(*                                                                         *)
(* An async function is modelled from one suspension point to the next:    *)
(* the only suspension point is the await of the HTTP call.  The spinner   *)
(* (ora) and the colours (chalk) are decoration and are left out; an error *)
(* body is a JSON object, of which the model keeps the fields the code     *)
(* reads.                                                                  *)
(***************************************************************************)
EXTENDS Integers, Sequences, FiniteSets, TLC

(***************************************************************************)
(* Bounds of the model.                                                    *)
(***************************************************************************)
MaxPagesOpt == 4     \* largest explicit maxPages option a caller passes
MaxPageLen  == 2     \* most records the service puts in one page
MaxRecords  == 6     \* most records the service hands out in one run

(***************************************************************************)
(* Program constants.                                                      *)
(***************************************************************************)
DefaultMaxPages == 10

(***************************************************************************)
(* Values.                                                                 *)
(***************************************************************************)
Absent       == "undefined"      \* a property that is not there
NoKey        == ""               \* no api key (undefined / empty: falsy)
NotSupplied  == -1               \* options.maxPages not passed
NoRetryAfter == -1               \* body without a 'Retry-After' field

StoredKeys == {NoKey, "keyA"}    \* what config.get('apiKey') may hold
EnvKeys    == {NoKey, "keyB"}    \* what CODAT_API_KEY may hold

Statuses == {400, 401, 403, 404, 409, 429, 500, 502, 503, 504}

TransportMessages == {"timeout of 30000ms exceeded", "connect ECONNREFUSED"}
SetupMessages     == {"Invalid URL"}

EmptyBody ==
  [message |-> Absent, error |-> Absent, details |-> Absent,
   validation |-> Absent, retryAfter |-> NoRetryAfter]

AllBodies ==
  [message : {Absent, "m1"}, error : {Absent, "e1"}, details : {Absent, "d1"},
   validation : {Absent, "v1"}, retryAfter : {NoRetryAfter, 0, 30}]

FieldsSet(b) ==
  (IF b.message # Absent THEN 1 ELSE 0) + (IF b.error # Absent THEN 1 ELSE 0)
  + (IF b.details # Absent THEN 1 ELSE 0)
  + (IF b.validation # Absent THEN 1 ELSE 0)
  + (IF b.retryAfter # NoRetryAfter THEN 1 ELSE 0)

\* error bodies the service sends: any combination of at most two fields
Bodies == {b \in AllBodies : FieldsSet(b) <= 2}

NoError ==
  [kind |-> "none", status |-> 0, data |-> EmptyBody, message |-> ""]

VARIABLES
  configKey,    \* config store: apiKey
  envKey,       \* process.env.CODAT_API_KEY
  op,           \* the api function the command called
  optMaxPages,  \* getAllPages: options.maxPages as the caller passed it
  pc,           \* where the process is
  allResults,   \* getAllPages: accumulated records
  page,         \* getAllPages: page counter
  hasMore,      \* getAllPages: continuation flag
  served,       \* number of records the service has put in 2xx pages
  lastPage,     \* record list of the last 2xx page the service sent
  lastHref,     \* continuation marker (_links.next.href) of that page
  sent,         \* requests put on the wire by this process, in order
  inflight,     \* requests sent and not yet answered or failed
  retval,       \* what the api function returned to the command
  lastError,    \* the error caught by the api function
  stderr,       \* lines written by console.error
  exitCode,     \* process exit status (-1 while running)
  callerRan,    \* the command's code after the await has run
  discarded,    \* records held in allResults when the process was ended
  stdout,       \* lines written by console.log
  configFormat, \* config store: outputFormat
  args          \* arguments of the library function called on its own

\* the variables the api functions and the service leave alone
library == <<configFormat, args>>

vars ==
  <<configKey, envKey, op, optMaxPages, pc, allResults, page, hasMore, served,
    lastPage, lastHref, sent, inflight, retval, lastError, stderr, exitCode, callerRan,
    discarded, stdout, configFormat, args>>

(***************************************************************************)
(* config.js                                                               *)
(***************************************************************************)
\* config.get('apiKey') || process.env.CODAT_API_KEY || null
getApiKey == IF configKey # NoKey THEN configKey ELSE envKey

(***************************************************************************)
(* Helpers                                                                 *)
(***************************************************************************)
Truthy(s) == s # Absent /\ s # ""

\* a || b on string-or-undefined values
OrElse(a, b) == IF Truthy(a) THEN a ELSE b

Line(label, text) == [label |-> label, text |-> text]

\* JSON.stringify of a string value
Stringify(s) == "\"" \o s \o "\""

\* Records are told apart by a serial number: the service numbers the
\* records it sends in the order it sends them, so the pages of one run are
\* <<1..a>>, <<a+1..b>>, ... and their concatenation in fetch order is
\* <<1..served>>.  PageRecords(k, n) is a page of n records sent after k others.
PageRecords(k, n) == [i \in 1..n |-> k + i]

NoValue == [returned |-> FALSE, value |-> <<>>]
Value(v) == [returned |-> TRUE, value |-> v]

\* the params object a command passes to get or getAllPages: page and
\* pageSize (NotSupplied when the key is not there) and the other params,
\* here a query
Params(pg, pageSize, query) ==
  [page |-> pg, pageSize |-> pageSize, query |-> query]

\* params = {}
NoParams == Params(NotSupplied, NotSupplied, Absent)

\* no library function is called on its own; the --format option of the
\* command has not been read yet
NoArgs ==
  [data |-> "none", options |-> "none", filters |-> "none", format |-> Absent,
   params |-> NoParams]

Init ==
  /\ configKey \in StoredKeys
  /\ envKey \in EnvKeys
  /\ op = "none"
  /\ optMaxPages = NotSupplied
  /\ pc = "idle"
  /\ allResults = <<>>
  /\ page = 0
  /\ hasMore = FALSE
  /\ served = 0
  /\ lastPage = <<>>
  /\ lastHref = Absent
  /\ sent = <<>>
  /\ inflight = 0
  /\ retval = NoValue
  /\ lastError = NoError
  /\ stderr = <<>>
  /\ exitCode = -1
  /\ callerRan = FALSE
  /\ discarded = 0
  /\ stdout = <<>>
  /\ configFormat = Absent
  /\ args = NoArgs

(***************************************************************************)
(* auth.js: requireAuth, handleApiError                                    *)
(***************************************************************************)
\* variant: the process ends with status 0 whatever the code
ProcessExit_StatusZero(code) ==
  /\ exitCode' = 0
  /\ pc' = "exited"
  /\ discarded' = Len(allResults)
  /\ allResults' = <<>>
  /\ page' = 0
  /\ hasMore' = FALSE

\* process.exit(code): the process ends and its memory goes with it
ProcessExit(code) ==
  /\ exitCode' = code
  /\ pc' = "exited"
  /\ discarded' = Len(allResults)
  /\ allResults' = <<>>
  /\ page' = 0
  /\ hasMore' = FALSE

\* the console.error lines of requireAuth when no key is configured
AuthLines ==
  << Line("Error: API key not configured", ""),
     Line("\nPlease set your API key using one of these methods:", ""),
     Line("  1. codat auth login", ""),
     Line("  2. export CODAT_API_KEY=your_api_key", ""),
     Line("  3. codat auth set-key <your_api_key>", ""),
     Line("\nGet your API key from: https://app.codat.io/developers/api-keys", "") >>

\* requireAuth() with no key: report and process.exit(1)
requireAuthExit ==
  /\ getApiKey = NoKey
  /\ stderr' = stderr \o AuthLines
  /\ ProcessExit(1)
  /\ UNCHANGED lastError

\* variant: 504 is reported like 500/502/503
StatusLines_GatewayAsServer(status, data) ==
  IF status \in {500, 502, 503, 504}
    THEN << Line("Server Error:", "Codat API is experiencing issues"),
            Line("Please try again later", "") >>
    ELSE << Line("HTTP " \o ToString(status) \o ":",
                 OrElse(data.message, OrElse(data.error, "Unknown error"))) >>

\* the switch (status) of handleApiError
StatusLines(status, data) ==
  CASE status = 400 ->
         << Line("Bad Request:",
                 OrElse(data.message,
                        OrElse(data.error, "Invalid request parameters"))) >>
    [] status = 401 ->
         << Line("Unauthorized:", "Invalid API key or authentication failed"),
            Line("Hint: Check your API key with", "codat auth status") >>
    [] status = 403 ->
         << Line("Forbidden:",
                 "You do not have permission to access this resource") >>
    [] status = 404 ->
         << Line("Not Found:", "Resource not found") >>
    [] status = 429 ->
         << Line("Rate Limited:", "Too many requests. Please try again later.") >>
         \o (IF data.retryAfter # NoRetryAfter /\ data.retryAfter # 0
               THEN << Line("Retry after: " \o ToString(data.retryAfter)
                            \o " seconds", "") >>
               ELSE << >>)
    [] status \in {500, 502, 503} ->
         << Line("Server Error:", "Codat API is experiencing issues"),
            Line("Please try again later", "") >>
    [] OTHER ->
         << Line("HTTP " \o ToString(status) \o ":",
                 OrElse(data.message, OrElse(data.error, "Unknown error"))) >>

\* variant: details are shown for status 400 only
DetailLines_OnlyBadRequest(status, data) ==
  IF status = 400 /\ (Truthy(data.details) \/ Truthy(data.validation))
    THEN << Line("\nDetails:",
                 Stringify(OrElse(data.details, data.validation))) >>
    ELSE << >>

\* if (data.details || data.validation) console.error('\nDetails:', ...)
DetailLines(status, data) ==
  IF Truthy(data.details) \/ Truthy(data.validation)
    THEN << Line("\nDetails:",
                 Stringify(OrElse(data.details, data.validation))) >>
    ELSE << >>

\* variant: an error without a response is reported by its own message
ErrorLines_MessageForNoResponse(error) ==
  IF error.kind = "response"
    THEN StatusLines(error.status, error.data)
         \o DetailLines(error.status, error.data)
    ELSE << Line("Error:", error.message) >>

\* everything handleApiError writes for one caught error
ErrorLines(error) ==
  IF error.kind = "response"
    THEN StatusLines(error.status, error.data)
         \o DetailLines(error.status, error.data)
    ELSE IF error.kind = "request"
      THEN << Line("Network Error:", "No response from server"),
              Line("Check your internet connection and try again", "") >>
      ELSE << Line("Error:", error.message) >>

\* variant: the error is reported and the function comes back to its caller
handleApiError_NoExit(error) ==
  /\ lastError' = error
  /\ stderr' = stderr \o ErrorLines(error)
  /\ pc' = "returned"
  /\ UNCHANGED <<exitCode, discarded, allResults, page, hasMore>>

\* handleApiError(error): report, then process.exit(1)
handleApiError(error) ==
  /\ lastError' = error
  /\ stderr' = stderr \o ErrorLines(error)
  /\ ProcessExit(1)

\* the errors axios can throw
ResponseError(status, data) ==
  [kind |-> "response", status |-> status, data |-> data, message |-> ""]
RequestError(msg) ==
  [kind |-> "request", status |-> 0, data |-> EmptyBody, message |-> msg]
SetupError(msg) ==
  [kind |-> "setup", status |-> 0, data |-> EmptyBody, message |-> msg]

\* 1 when the error ends a request that was on the wire
Answered(error) == IF error.kind \in {"response", "request"} THEN 1 ELSE 0

\* variant: the records collected so far are handed back after the report
Catch_ReturnPartial(error) ==
  /\ inflight' = inflight - Answered(error)
  /\ lastError' = error
  /\ stderr' = stderr \o ErrorLines(error)
  /\ retval' = [returned |-> TRUE,
                value |-> IF op = "getAllPages" THEN allResults
                          ELSE [hasResults |-> FALSE, results |-> << >>,
                                href |-> Absent, raw |-> FALSE]]
  /\ pc' = "returned"
  /\ UNCHANGED <<sent, exitCode, discarded, allResults, page, hasMore>>

\* variant: a 5xx answer makes the client send the same request once more
Catch_Retry(error) ==
  IF error.kind = "response" /\ error.status \in {500, 502, 503}
     /\ Len(sent) < 2
    THEN /\ sent' = Append(sent, sent[Len(sent)])
         /\ pc' = "await"
         /\ UNCHANGED <<inflight, retval, lastError, stderr, exitCode,
                        discarded, allResults, page, hasMore>>
    ELSE /\ inflight' = inflight - Answered(error)
         /\ handleApiError(error)
         /\ UNCHANGED <<sent, retval>>

\* catch (error) { handleApiError(error) } of get, post, put, del, getAllPages
Catch(error) ==
  /\ inflight' = inflight - Answered(error)
  /\ handleApiError(error)
  /\ UNCHANGED <<sent, retval>>

(***************************************************************************)
(* auth.js: the api client                                                 *)
(***************************************************************************)
\* 'Authorization': `Basic ${Buffer.from(apiKey + ':').toString('base64')}`
AuthHeader(apiKey) == "Basic base64(" \o apiKey \o ":)"

\* variant: the header is built from the environment key when there is one
getAuthHeaders_EnvFirst == AuthHeader(OrElse(envKey, configKey))

\* getAuthHeaders() once requireAuth has returned the key
getAuthHeaders == AuthHeader(getApiKey)

DefaultPageSize == 100

\* params.pageSize || 100
PageSize(params) ==
  IF params.pageSize \in {NotSupplied, 0} THEN DefaultPageSize
  ELSE params.pageSize

\* variant: { page, pageSize, ...params }, the caller's values win
MergeParams_CallerWins(params, pg) ==
  Params(IF params.page = NotSupplied THEN pg ELSE params.page,
         PageSize(params), params.query)

\* { ...params, page, pageSize: params.pageSize || 100 }
MergeParams(params, pg) == Params(pg, PageSize(params), params.query)

\* the params of a request: those of a page request of getAllPages (pg is
\* the page counter), the caller's own for get (pg = 0), none for the rest
RequestParams(method, pg) ==
  IF pg > 0 THEN MergeParams(args.params, pg)
  ELSE IF method = "GET" THEN args.params ELSE NoParams

\* the request axios sends, with the headers of createClient
Request(method, pg) ==
  [method |-> method, params |-> RequestParams(method, pg),
   auth |-> getAuthHeaders]

\* try { client = createClient(); await client.<method>(...) }, up to the
\* await: createClient ends the process when no key is configured, and axios
\* either puts the request on the wire or throws while setting it up
Attempt(method, pg) ==
  \/ /\ requireAuthExit
     /\ UNCHANGED <<sent, inflight, retval>>
  \/ /\ getApiKey # NoKey
     /\ sent' = Append(sent, Request(method, pg))
     /\ inflight' = inflight + 1
     /\ pc' = "await"
     /\ UNCHANGED <<allResults, page, hasMore, retval, lastError, stderr,
                    exitCode, discarded>>
  \/ /\ getApiKey # NoKey
     /\ \E m \in SetupMessages : Catch(SetupError(m))

\* a single-request api function, from the call to the await
Single(name, method) ==
  /\ pc = "idle"
  /\ op' = name
  /\ Attempt(method, 0)
  /\ UNCHANGED <<stdout, library, configKey, envKey, optMaxPages, served, lastPage, lastHref, callerRan>>

get ==
  /\ pc = "idle"
  /\ Single("get", "GET")

post ==
  /\ pc = "idle"
  /\ Single("post", "POST")

put ==
  /\ pc = "idle"
  /\ Single("put", "PUT")

del ==
  /\ pc = "idle"
  /\ Single("del", "DELETE")

\* const { maxPages = 10 } = options
maxPages ==
  IF optMaxPages = NotSupplied THEN DefaultMaxPages ELSE optMaxPages

\* getAllPages, from the call to the first test of the loop
getAllPages(opt) ==
  /\ pc = "idle"
  /\ op' = "getAllPages"
  /\ optMaxPages' = opt
  /\ allResults' = <<>>
  /\ page' = 1
  /\ hasMore' = TRUE
  /\ pc' = "loop"
  /\ UNCHANGED <<stdout, library, configKey, envKey, served, lastPage, lastHref, sent, inflight, retval,
                 lastError, stderr, exitCode, callerRan, discarded>>

\* variant: the page bound is tested one too late
LoopCond_OffByOne == hasMore /\ page <= maxPages + 1

\* while (hasMore && page <= maxPages)
LoopCond == hasMore /\ page <= maxPages

\* variant: the next page is requested without waiting for the previous one
getAllPagesLoop_NoAwait ==
  /\ pc \in {"loop", "await"}
  /\ op = "getAllPages"
  /\ getApiKey # NoKey
  /\ page <= maxPages
  /\ sent' = Append(sent, Request("GET", page))
  /\ inflight' = inflight + 1
  /\ page' = page + 1
  /\ pc' = "await"
  /\ UNCHANGED <<stdout, library, configKey, envKey, op, optMaxPages, allResults, hasMore,
                 served, lastPage, lastHref, retval, lastError, stderr, exitCode,
                 callerRan, discarded>>

\* one test of the loop: the next page is requested, or allResults is returned
getAllPagesLoop ==
  /\ pc = "loop"
  /\ IF LoopCond
       THEN Attempt("GET", page)
       ELSE /\ retval' = Value(allResults)
            /\ pc' = "returned"
            /\ UNCHANGED <<allResults, page, hasMore, sent, inflight,
                           lastError, stderr, exitCode, discarded>>
  /\ UNCHANGED <<stdout, library, configKey, envKey, op, optMaxPages, served, lastPage, lastHref, callerRan>>

(***************************************************************************)
(* Records (src/STRUCTURE.md holds the source of lib/output.js)            *)
(*                                                                         *)
(* A JSON value is a record with a tag t and, by tag, a boolean b, an      *)
(* integer n, a string s given as the sequence of its characters, or the   *)
(* keys and the values (kids) of an object or the kids of an array.        *)
(* Object keys are plain words and are kept as strings.                    *)
(***************************************************************************)
JVal(t, b, n, str, keys, kids) ==
  [t |-> t, b |-> b, n |-> n, s |-> str, keys |-> keys, kids |-> kids]

JUndef       == JVal("undefined", FALSE, 0, << >>, << >>, << >>)
JNull        == JVal("null", FALSE, 0, << >>, << >>, << >>)
JBool(b)     == JVal("boolean", b, 0, << >>, << >>, << >>)
JNum(n)      == JVal("number", FALSE, n, << >>, << >>, << >>)
JStr(str)    == JVal("string", FALSE, 0, str, << >>, << >>)
JArr(kids)   == JVal("array", FALSE, 0, << >>, << >>, kids)
JObj(keys, kids) == JVal("object", FALSE, 0, << >>, keys, kids)

RECURSIVE Concat(_)
\* the sequences of a sequence, one after the other
Concat(seqs) ==
  IF seqs = << >> THEN << >> ELSE Head(seqs) \o Concat(Tail(seqs))

RECURSIVE JoinWith(_, _)
\* Array.prototype.join on sequences of tokens
JoinWith(seqs, sep) ==
  IF seqs = << >> THEN << >>
  ELSE IF Len(seqs) = 1 THEN Head(seqs)
  ELSE Head(seqs) \o sep \o JoinWith(Tail(seqs), sep)

RECURSIVE Text(_)
\* the string made of the characters chars
Text(chars) ==
  IF chars = << >> THEN "" ELSE Head(chars) \o Text(Tail(chars))

RECURSIVE Digits(_)
\* the decimal digits of n >= 0
Digits(n) ==
  IF n < 10 THEN << ToString(n) >>
  ELSE Digits(n \div 10) \o << ToString(n % 10) >>

\* String(n) of an integer, as characters
NumberChars(n) == IF n < 0 THEN << "-" >> \o Digits(0 - n) ELSE Digits(n)

\* variant: a backslash is written as it is
EscapeChar_BackslashKept(c) ==
  CASE c = "\"" -> << "\\", "\"" >>
    [] c = "\n" -> << "\\", "n" >>
    [] OTHER    -> << c >>

\* the JSON escape of one character
EscapeChar(c) ==
  CASE c = "\"" -> << "\\", "\"" >>
    [] c = "\\" -> << "\\", "\\" >>
    [] c = "\n" -> << "\\", "n" >>
    [] OTHER    -> << c >>

\* a JSON string literal
Quote(chars) ==
  << "\"" >> \o Concat([i \in 1..Len(chars) |-> EscapeChar(chars[i])])
  \o << "\"" >>

\* gap * level blanks
Indent(gap, level) == [i \in 1..(gap * level) |-> " "]

\* "\n" and the indentation of a line, nothing when gap = 0
Break(gap, level) ==
  IF gap = 0 THEN << >> ELSE << "\n" >> \o Indent(gap, level)

RECURSIVE Serialize(_, _, _)
\* JSON.stringify(value, null, gap) at nesting depth level, as characters
Serialize(value, gap, level) ==
  CASE value.t = "null"    -> << "null" >>
    [] value.t = "boolean" -> IF value.b THEN << "true" >> ELSE << "false" >>
    [] value.t = "number"  -> NumberChars(value.n)
    [] value.t = "string"  -> Quote(value.s)
    [] value.t = "array"   ->
         IF value.kids = << >> THEN << "[", "]" >>
         ELSE << "[" >> \o Break(gap, level + 1)
              \o JoinWith([i \in 1..Len(value.kids) |->
                             Serialize(value.kids[i], gap, level + 1)],
                          << "," >> \o Break(gap, level + 1))
              \o Break(gap, level) \o << "]" >>
    [] value.t = "object"  ->
         IF value.keys = << >> THEN << "{", "}" >>
         ELSE << "{" >> \o Break(gap, level + 1)
              \o JoinWith([i \in 1..Len(value.keys) |->
                             << "\"", value.keys[i], "\"", ":" >>
                             \o (IF gap = 0 THEN << >> ELSE << " " >>)
                             \o Serialize(value.kids[i], gap, level + 1)],
                          << "," >> \o Break(gap, level + 1))
              \o Break(gap, level) \o << "}" >>
    [] OTHER -> << "undefined" >>

\* JSON.stringify(value, null, gap)
JSONstringify(value, gap) == Serialize(value, gap, 0)

(***************************************************************************)
(* output.js                                                               *)
(*                                                                         *)
(* A line of standard output is a record: a plain line carries text, a     *)
(* JSON document carries its characters, a table carries its grid of       *)
(* cells, header row first.  Colours are left out.                         *)
(***************************************************************************)
TextLine(text)  == [kind |-> "line", text |-> text, chars |-> << >>, rows |-> << >>]
JsonLine(chars) == [kind |-> "json", text |-> "", chars |-> chars, rows |-> << >>]
TableLine(rows) == [kind |-> "table", text |-> "", chars |-> << >>, rows |-> rows]

\* the glyphs of formatValue, written by their Unicode names: the em dash
\* U+2014 (the placeholder), the check mark U+2713 and the ballot x U+2717
Placeholder == "<U+2014>"
CheckMark   == "<U+2713>"
BallotX     == "<U+2717>"

\* JavaScript truthiness of a value
JTruthy(value) ==
  CASE value.t \in {"undefined", "null"} -> FALSE
    [] value.t = "boolean" -> value.b
    [] value.t = "number"  -> value.n # 0
    [] value.t = "string"  -> value.s # << >>
    [] OTHER -> TRUE

RECURSIVE JoinText(_, _)
\* Array.prototype.join on strings
JoinText(texts, sep) ==
  IF texts = << >> THEN ""
  ELSE IF Len(texts) = 1 THEN Head(texts)
  ELSE Head(texts) \o sep \o JoinText(Tail(texts), sep)

RECURSIVE JString(_)
\* String(value), as a template literal computes it
JString(value) ==
  CASE value.t = "undefined" -> "undefined"
    [] value.t = "null"    -> "null"
    [] value.t = "boolean" -> IF value.b THEN "true" ELSE "false"
    [] value.t = "number"  -> Text(NumberChars(value.n))
    [] value.t = "string"  -> Text(value.s)
    [] value.t = "array"   ->
         JoinText([i \in 1..Len(value.kids) |->
                     IF value.kids[i].t \in {"undefined", "null"} THEN ""
                     ELSE JString(value.kids[i])], ",")
    [] OTHER -> "[object Object]"

\* Object.keys(value) of an object or an array
ObjectKeys(value) ==
  IF value.t = "array" THEN [i \in 1..Len(value.kids) |-> ToString(i - 1)]
  ELSE value.keys

\* current?.[key]; the keys used are no names of Object.prototype
Member(current, key) ==
  CASE current.t = "object" ->
         IF \E i \in 1..Len(current.keys) : current.keys[i] = key
         THEN current.kids[CHOOSE i \in 1..Len(current.keys) :
                             current.keys[i] = key]
         ELSE JUndef
    [] current.t = "array" ->
         IF key = "length" THEN JNum(Len(current.kids))
         ELSE IF \E i \in 1..Len(current.kids) : ToString(i - 1) = key
         THEN current.kids[CHOOSE i \in 1..Len(current.kids) :
                             ToString(i - 1) = key]
         ELSE JUndef
    [] current.t = "string" ->
         IF key = "length" THEN JNum(Len(current.s)) ELSE JUndef
    [] OTHER -> JUndef

RECURSIVE Reduce(_, _)
\* path.reduce((current, key) => current?.[key], obj)
Reduce(path, current) ==
  IF path = << >> THEN current
  ELSE Reduce(Tail(path), Member(current, Head(path)))

\* getNestedValue(obj, path); path is the dotted string as path.split('.')
\* returns it, the sequence of its segments
getNestedValue(obj, path) == Reduce(path, obj)

\* the dotted string of a path
Dotted(path) == JoinText(path, ".")

\* variant: keys with array values are dropped with the nested records
KeepColumn_ScalarsOnly(value) == value.t \notin {"object", "array"}

\* the filter of inferColumns: null, undefined, non-objects and arrays
KeepColumn(value) == value.t # "object"

\* inferColumns(obj): the column keys
inferColumns(obj) ==
  IF ~JTruthy(obj) \/ obj.t \notin {"object", "array"} THEN << "value" >>
  ELSE LET keys == ObjectKeys(obj)
           Keep(key) == KeepColumn(Member(obj, key))
       IN  SelectSeq(keys, Keep)

TruncateAt   == 50
TruncateKeep == 47

\* formatValue(value)
formatValue(value) ==
  CASE value.t \in {"null", "undefined"} -> Placeholder
    [] value.t = "boolean" -> IF value.b THEN CheckMark ELSE BallotX
    [] value.t = "array"   ->
         IF Len(value.kids) > 0
         THEN "[" \o ToString(Len(value.kids)) \o " items]" ELSE "[]"
    [] value.t = "object"  -> "[object]"
    [] value.t = "string" /\ Len(value.s) > TruncateAt ->
         Text(SubSeq(value.s, 1, TruncateKeep)) \o "..."
    [] OTHER -> JString(value)

(***************************************************************************)
(* api.js: buildQuery                                                      *)
(*                                                                         *)
(* The filter object is a value with its keys and values in the order of   *)
(* Object.entries; the query string is a sequence of characters, with a    *)
(* key as one item of it.                                                  *)
(***************************************************************************)
\* Object.keys(filters).length === 0
NoKeys(filters) == Len(ObjectKeys(filters)) = 0

\* variant: only undefined is skipped, null is rendered like a value
IsSupplied_KeepNull(value) == value.t # "undefined"

\* value !== undefined && value !== null
IsSupplied(value) == value.t \notin {"undefined", "null"}

\* `${value}` of a value that is no string
Spelled(value) ==
  IF value.t = "number" THEN NumberChars(value.n) ELSE << JString(value) >>

\* variant: every literal is quoted
Condition_QuoteAll(key, value) ==
  << key, "=", "\"" >>
  \o (IF value.t = "string" THEN value.s ELSE Spelled(value)) \o << "\"" >>

\* `${key}="${value}"` for a string, `${key}=${value}` otherwise
Condition(key, value) ==
  IF value.t = "string"
  THEN << key, "=", "\"" >> \o value.s \o << "\"" >>
  ELSE << key, "=" >> \o Spelled(value)

RECURSIVE Conditions(_, _)
\* the conditions array after the loop over Object.entries(filters)
Conditions(keys, values) ==
  IF keys = << >> THEN << >>
  ELSE (IF IsSupplied(Head(values))
        THEN << Condition(Head(keys), Head(values)) >> ELSE << >>)
       \o Conditions(Tail(keys), Tail(values))

\* variant: no filters are spelled as the text 'undefined'
NoQuery_Undefined == << "undefined" >>

\* return ''
NoQuery == << >>

\* buildQuery(filters)
buildQuery(filters) ==
  IF ~JTruthy(filters) \/ NoKeys(filters) THEN NoQuery
  ELSE JoinWith(Conditions(filters.keys, filters.kids), << "&", "&" >>)

(***************************************************************************)
(* Column definitions of the commands.  A path is given as its segments;   *)
(* a formatter is named after the column that carries it.                  *)
(***************************************************************************)
Column(key, header, formatter) ==
  [plain |-> FALSE, key |-> key, header |-> header, formatter |-> formatter]

\* a column given as a bare string (typeof col === 'string')
PlainColumn(key) ==
  [plain |-> TRUE, key |-> key, header |-> "", formatter |-> ""]

\* invoices list
InvoiceColumns ==
  << Column(<< "id" >>, "ID", ""),
     Column(<< "invoiceNumber" >>, "Invoice #", ""),
     Column(<< "customerRef", "companyName" >>, "Customer", ""),
     Column(<< "issueDate" >>, "Issue Date", "date"),
     Column(<< "dueDate" >>, "Due Date", "date"),
     Column(<< "status" >>, "Status", "status"),
     Column(<< "totalAmount" >>, "Total", "amount"),
     Column(<< "currency" >>, "Currency", "") >>

\* companies list
CompanyColumns ==
  << Column(<< "id" >>, "ID", ""),
     Column(<< "name" >>, "Name", ""),
     Column(<< "platform" >>, "Platform", ""),
     Column(<< "dataConnections" >>, "Connections", "connections"),
     Column(<< "created" >>, "Created", "created") >>

\* the one date string of the model and its en-US rendering; every other
\* string of the model is no date
IsoDate    == << "2", "0", "2", "4", "-", "0", "2", "-", "0", "1" >>
IsoDateLocale == "2/1/2024"
\* the days around time 0, en-US, UTC
EpochDate  == "1/1/1970"
EpochEve   == "12/31/1969"

\* new Date(v).toLocaleDateString() for v not an array or object; the
\* numbers of the model are less than a day of milliseconds
LocaleDate(v) ==
  CASE v.t = "undefined" -> "Invalid Date"
    [] v.t = "null"      -> EpochDate
    [] v.t = "boolean"   -> EpochDate
    [] v.t = "number"    -> IF v.n < 0 THEN EpochEve ELSE EpochDate
    [] v.t = "string"    ->
         IF v.s = IsoDate THEN IsoDateLocale ELSE "Invalid Date"
    [] OTHER -> "Invalid Date"

\* v?.length || 0
LengthOrZero(v) ==
  CASE v.t = "array"  -> Len(v.kids)
    [] v.t = "string" -> Len(v.s)
    [] OTHER -> 0

\* the formatter called on a value
ApplyFormatter(formatter, v) ==
  CASE formatter = "date"   -> LocaleDate(v)
    [] formatter = "status" -> JString(v)
    [] formatter = "amount" ->
         IF v.t \in {"null", "undefined"} THEN Placeholder
         ELSE Text(NumberChars(v.n)) \o ".00"
    [] formatter = "connections" -> ToString(LengthOrZero(v))
    [] formatter = "created" ->
         IF JTruthy(v) THEN LocaleDate(v) ELSE Placeholder
    [] OTHER -> formatValue(v)

\* the calls the model computes: toFixed exists on numbers only, and the
\* date of an array or object is left out
FormatterModelled(formatter, v) ==
  /\ formatter = "amount" => v.t \in {"null", "undefined", "number"}
  /\ formatter \in {"date", "created"} => v.t \notin {"array", "object"}

(***************************************************************************)
(* output.js: the three renderers                                          *)
(***************************************************************************)
NoList      == [given |-> FALSE, list |-> << >>]
Given(list) == [given |-> TRUE, list |-> list]

Options(format, pretty, fields, columns, title) ==
  [format |-> format, pretty |-> pretty, fields |-> fields,
   columns |-> columns, title |-> title]

\* Array.isArray(data) ? data : [data]
Items(data) == IF data.t = "array" THEN data.kids ELSE << data >>

\* getOutputFormat()
getOutputFormat == OrElse(configFormat, "table")

\* const { pretty = true } = options; pretty ? 2 : 0
Gap(options) == IF options.pretty \in {Absent, "true"} THEN 2 ELSE 0

\* outputJson(data, options)
outputJson(data, options) ==
  << JsonLine(JSONstringify(data, Gap(options))) >>

\* `${value}` as characters
ValueChars(value) ==
  IF value.t = "string" THEN value.s ELSE << JString(value) >>

\* variant: the parts are joined by commas
Parts_CommaJoined(item, fields) ==
  JoinWith([i \in 1..Len(fields) |->
              << Dotted(fields[i]), "=" >>
              \o ValueChars(getNestedValue(item, fields[i]))],
           << "," >>)

\* parts.join(' '), as characters with a field name as one item
Parts(item, fields) ==
  JoinWith([i \in 1..Len(fields) |->
              << Dotted(fields[i]), "=" >>
              \o ValueChars(getNestedValue(item, fields[i]))],
           << " " >>)

\* one line of outputCompact; a line of parts is kept as text and as
\* characters
CompactLine(item, fields) ==
  IF fields.given
  THEN [kind |-> "line", text |-> Text(Parts(item, fields.list)),
        chars |-> Parts(item, fields.list), rows |-> << >>]
  ELSE JsonLine(JSONstringify(item, 0))

\* variant: an empty collection gets the notice of the table format
outputCompact_NoticeWhenEmpty(data, options) ==
  IF Items(data) = << >> THEN << TextLine("No results found") >>
  ELSE [i \in 1..Len(Items(data)) |->
          CompactLine(Items(data)[i], options.fields)]

\* outputCompact(data, options)
outputCompact(data, options) ==
  [i \in 1..Len(Items(data)) |-> CompactLine(Items(data)[i], options.fields)]

\* columns || inferColumns(items[0])
TableColumns(items, columns) ==
  IF columns.given THEN columns.list
  ELSE LET keys == inferColumns(items[1])
       IN  [i \in 1..Len(keys) |-> PlainColumn(<< keys[i] >>)]

HeaderCell(col) == IF col.plain THEN Dotted(col.key) ELSE col.header

\* one cell of a data row
Cell(item, col) ==
  LET value == getNestedValue(item, col.key)
  IN  IF col.formatter # "" THEN ApplyFormatter(col.formatter, value)
      ELSE formatValue(value)

\* variant: the count line says "results" for every count
CountLine_AlwaysPlural(n) == ToString(n) \o " results"

\* `${items.length} result${items.length !== 1 ? 's' : ''}`
CountLine(n) == ToString(n) \o " result" \o (IF n # 1 THEN "s" ELSE "")

\* outputTable(data, options)
outputTable(data, options) ==
  IF ~JTruthy(data) THEN << TextLine("No data to display") >>
  ELSE IF Items(data) = << >> THEN << TextLine("No results found") >>
  ELSE LET items == Items(data)
           cols  == TableColumns(items, options.columns)
           tableData ==
             << [c \in 1..Len(cols) |-> HeaderCell(cols[c])] >>
             \o [r \in 1..Len(items) |->
                   [c \in 1..Len(cols) |-> Cell(items[r], cols[c])]]
       IN  (IF Truthy(options.title)
            THEN << TextLine("\n" \o options.title) >> ELSE << >>)
           \o << TableLine(tableData), TextLine(CountLine(Len(items))) >>

\* formatOutput(data, options): the lines it prints
formatOutput(data, options) ==
  LET format == OrElse(options.format, getOutputFormat)
  IN  IF format = "json" THEN outputJson(data, options)
      ELSE IF format = "compact" THEN outputCompact(data, options)
      ELSE outputTable(data, options)

(***************************************************************************)
(* The remote service                                                      *)
(***************************************************************************)
\* a 2xx body: results (may be missing) and _links.next.href (may be
\* missing or null)
Hrefs == {Absent, "null", "/next"}

Data(k, n, hasResults, href) ==
  [hasResults |-> hasResults, results |-> PageRecords(k, n), href |-> href,
   raw |-> FALSE]

\* a 2xx body that is no JSON text: the client created by createClient keeps
\* axios' default response handling, which hands the body over as the string
\* it received; a string has no .results and no ._links
RawBody ==
  [hasResults |-> FALSE, results |-> << >>, href |-> Absent, raw |-> TRUE]

\* data.results || []
ResultsOf(data) == IF data.hasResults THEN data.results ELSE << >>

\* variant: only a missing marker ends the traversal, a null one does not
HasNext_NullIsMarker(data) == data.href # Absent

\* data._links?.next?.href != null
HasNext(data) == data.href # Absent /\ data.href # "null"

\* variant: the new page is put in front of the collected records
Push_Front(all, items) == items \o all

\* allResults.push(...items)
Push(all, items) == all \o items

\* the rest of one loop iteration after the await of a 2xx response
OnPage(data) ==
  /\ allResults' = Push(allResults, ResultsOf(data))
  /\ hasMore' = HasNext(data)
  /\ page' = page + 1
  /\ pc' = "loop"
  /\ UNCHANGED retval

\* return response.data
OnData(data) ==
  /\ retval' = Value(data)
  /\ pc' = "returned"
  /\ UNCHANGED <<allResults, page, hasMore>>

\* the service answers the outstanding request with a 2xx status
RespondOk ==
  /\ pc = "await"
  /\ \E n \in 0..MaxPageLen, hasResults \in BOOLEAN, href \in Hrefs,
        raw \in BOOLEAN :
       /\ ~hasResults => n = 0
       /\ raw => (~hasResults /\ href = Absent)
       /\ served + n <= MaxRecords
       /\ LET data == IF raw THEN RawBody
                      ELSE Data(served, n, hasResults, href)
          IN  /\ IF op = "getAllPages" THEN OnPage(data) ELSE OnData(data)
              /\ served' = served + n
              /\ lastPage' = ResultsOf(data)
              /\ lastHref' = data.href
  /\ inflight' = inflight - 1
  /\ UNCHANGED <<stdout, library, configKey, envKey, op, optMaxPages, sent, lastError, stderr,
                 exitCode, callerRan, discarded>>

\* the service answers the outstanding request with an error status
RespondError ==
  /\ pc = "await"
  /\ \E status \in Statuses, data \in Bodies :
       Catch(ResponseError(status, data))
  /\ UNCHANGED <<stdout, library, configKey, envKey, op, optMaxPages, served, lastPage, lastHref, callerRan>>

\* no answer arrives: timeout or connection failure
NoResponse ==
  /\ pc = "await"
  /\ \E m \in TransportMessages : Catch(RequestError(m))
  /\ UNCHANGED <<stdout, library, configKey, envKey, op, optMaxPages, served, lastPage, lastHref, callerRan>>

\* the record the service keeps under a serial number
Company(k) == JObj(<< "id" >>, << JNum(k) >>)

\* the --format option of a command; commander supplies 'table' by default
Formats == {"table", "json", "compact"}

\* companies list after `await get(...)`:
\* formatOutput(data.results || [], { format: options.format, columns })
ListCompanies(data, format) ==
  formatOutput(JArr([i \in 1..Len(ResultsOf(data)) |->
                       Company(ResultsOf(data)[i])]),
               Options(format, Absent, NoList, Given(CompanyColumns), ""))

\* response.data as a value: the raw text when the body was no JSON, or the
\* object with the results and _links the body has
BodyValue(data) ==
  IF data.raw THEN JStr(<< "<", "h", "t", "m", "l", ">" >>)
  ELSE JObj((IF data.hasResults THEN << "results" >> ELSE << >>)
            \o (IF data.href # Absent THEN << "_links" >> ELSE << >>),
            (IF data.hasResults
             THEN << JArr([i \in 1..Len(data.results) |->
                             Company(data.results[i])]) >>
             ELSE << >>)
            \o (IF data.href # Absent
                THEN << JObj(<< "next" >>,
                             << JObj(<< "href" >>,
                                     << IF data.href = "null" THEN JNull
                                        ELSE JStr(<< "/", "n" >>) >>) >>) >>
                ELSE << >>))

\* success(message): console.log(chalk.green(check mark), message)
success(message) == << TextLine(CheckMark \o " " \o message) >>

\* companies create after `await post(...)`:
\* success(`Company created: ${data.id}`); formatOutput(data, { format })
CreateCompany(data, format) ==
  success("Company created: " \o JString(Member(BodyValue(data), "id")))
  \o formatOutput(BodyValue(data), Options(format, Absent, NoList, NoList, ""))

\* companies update after `await put(...)`:
\* success('Company updated'); formatOutput(data, { format })
UpdateCompany(data, format) ==
  success("Company updated")
  \o formatOutput(BodyValue(data), Options(format, Absent, NoList, NoList, ""))

\* companies delete after `await del(...)`
DeleteCompany == success("Company deleted")

\* what the command prints once its api function has returned; no command
\* calls getAllPages
CommandOutput(format) ==
  CASE op = "get"  -> ListCompanies(retval.value, format)
    [] op = "post" -> CreateCompany(retval.value, format)
    [] op = "put"  -> UpdateCompany(retval.value, format)
    [] op = "del"  -> DeleteCompany
    [] OTHER       -> << >>

\* the command's code after the await runs, with the --format option the
\* command was started with
CallerContinue ==
  /\ pc = "returned"
  /\ pc' = "done"
  /\ callerRan' = TRUE
  /\ \E format \in Formats :
       /\ args' = [args EXCEPT !.format = format]
       /\ stdout' = stdout \o CommandOutput(format)
  /\ UNCHANGED <<configFormat, configKey, envKey, op, optMaxPages, allResults, page, hasMore,
                 served, lastPage, lastHref, sent, inflight, retval, lastError, stderr, exitCode,
                 discarded>>

MaxPagesOpts == {NotSupplied} \cup 0..MaxPagesOpt

Next ==
  \/ get
  \/ post
  \/ put
  \/ del
  \/ \E opt \in MaxPagesOpts : getAllPages(opt)
  \/ getAllPagesLoop
  \/ RespondOk
  \/ RespondError
  \/ NoResponse
  \/ CallerContinue

Spec == Init /\ [][Next]_vars

TypeOK ==
  /\ pc \in {"idle", "loop", "await", "returned", "done", "exited"}
  /\ op \in {"none", "get", "post", "put", "del", "getAllPages"}
  /\ inflight \in 0..1
  /\ exitCode \in {-1, 1}

(***************************************************************************)
(* buildQuery called on its own.  A caller has criteria in mind, each a    *)
(* field, an operator and a literal; what it can hand to buildQuery is the *)
(* filter object { field: literal, ... }, which has no place for the       *)
(* operator.                                                               *)
(***************************************************************************)
MaxCriteria == 2

Fields    == {"status", "totalAmount", "name"}
Operators == {"equals", "contains", "greater-than", "less-than"}
Literals  ==
  { JStr(<< "O", "p", "e", "n" >>), JStr(<< "a", "&", "&", "b" >>),
    JNum(500), JNum(0), JBool(FALSE), JNull, JUndef }

Criterion == [field : Fields, operator : Operators, literal : Literals]

\* lists of criteria on distinct fields
CriteriaLists ==
  { c \in UNION { [1..n -> Criterion] : n \in 0..MaxCriteria } :
      \A i, j \in 1..Len(c) : c[i].field = c[j].field => i = j }

\* { field: literal, ... } in the order of the criteria
FilterObject(criteria) ==
  JObj([i \in 1..Len(criteria) |-> criteria[i].field],
       [i \in 1..Len(criteria) |-> criteria[i].literal])

QueryArgs ==
  { [criteria |-> c, filters |-> FilterObject(c)] : c \in CriteriaLists }
  \cup { [criteria |-> << >>, filters |-> f] : f \in {JUndef, JNull} }

\* no api function is running and none has run
ClientIdle ==
  /\ configKey = NoKey
  /\ envKey = NoKey
  /\ op = "none"
  /\ optMaxPages = NotSupplied
  /\ pc = "idle"
  /\ allResults = <<>>
  /\ page = 0
  /\ hasMore = FALSE
  /\ served = 0
  /\ lastPage = <<>>
  /\ lastHref = Absent
  /\ sent = <<>>
  /\ inflight = 0
  /\ retval = NoValue
  /\ lastError = NoError
  /\ stderr = <<>>
  /\ exitCode = -1
  /\ callerRan = FALSE
  /\ discarded = 0

\* the variables a library function called on its own leaves alone
client ==
  <<configKey, envKey, optMaxPages, allResults, page, hasMore, served,
    lastPage, lastHref, sent, inflight, lastError, stderr, exitCode, callerRan,
    discarded>>

QueryInit ==
  /\ ClientIdle
  /\ stdout = <<>>
  /\ configFormat = Absent
  /\ args \in QueryArgs

\* const query = buildQuery(filters)
CallBuildQuery ==
  /\ pc = "idle"
  /\ op' = "buildQuery"
  /\ retval' = Value(buildQuery(args.filters))
  /\ pc' = "done"
  /\ UNCHANGED <<client, stdout, library>>

QueryNext == CallBuildQuery

QuerySpec == QueryInit /\ [][QueryNext]_vars

(***************************************************************************)
(* formatOutput called on its own, on records as the service sends them    *)
(* and with the options a command may pass.                                *)
(***************************************************************************)
MaxItems == 2

Chars4(a, b, c, d) == JStr(<< a, b, c, d >>)

\* an invoice with every column filled
PaidInvoice ==
  JObj(<< "id", "status", "totalAmount", "dueDate", "customerRef" >>,
       << JNum(1), Chars4("P", "a", "i", "d"), JNum(120), JStr(IsoDate),
          JObj(<< "companyName" >>, << JStr(<< "A" >>) >>) >>)

\* an invoice without due date and customer
OpenInvoice ==
  JObj(<< "id", "status", "totalAmount" >>,
       << JNum(2), Chars4("O", "p", "e", "n"), JNum(75) >>)

\* an invoice whose optional fields are null
DraftInvoice ==
  JObj(<< "id", "status", "totalAmount", "dueDate", "customerRef" >>,
       << JNum(3), JNull, JNull, JNull, JNull >>)

\* a record with nested records and arrays and a string to escape
NestedRecord ==
  JObj(<< "id", "tags", "lines", "meta", "ok", "note" >>,
       << JNum(-4),
          JArr(<< JStr(<< "a" >>), JNum(1), JNull >>),
          JArr(<< JObj(<< "n" >>, << JNum(10) >>) >>),
          JObj(<< "a" >>, << JObj(<< "b" >>, << JArr(<< >>) >>) >>),
          JBool(TRUE),
          JStr(<< "q", "\"", "\\", "n", "\n", "z" >>) >>)

\* a record with a long string, an empty array and an empty record
WideRecord ==
  JObj(<< "name", "flag", "none", "obj" >>,
       << JStr([i \in 1..(TruncateAt + 1) |-> "x"]), JBool(FALSE),
          JArr(<< >>), JObj(<< >>, << >>) >>)

EmptyRecord == JObj(<< >>, << >>)

RecordPool ==
  { PaidInvoice, OpenInvoice, DraftInvoice, NestedRecord, WideRecord,
    EmptyRecord }

\* what a command hands to formatOutput: a list of records, one record, or
\* a value that is no record
RenderData ==
  { JArr(items) : items \in UNION { [1..n -> RecordPool] : n \in 0..MaxItems } }
  \cup RecordPool
  \cup { JUndef, JNull, JNum(0), JNum(5) }

\* invoices list: { format: options.format, columns }
InvoicesListOptions(format) ==
  Options(format, Absent, NoList, Given(InvoiceColumns), "")

StatusColumns ==
  << PlainColumn(<< "id" >>), Column(<< "status" >>, "Status", "") >>

RenderOptions ==
  { Options(Absent, Absent, NoList, NoList, "") }
  \cup { Options("table", Absent, NoList, columns, title) :
           columns \in {NoList, Given(InvoiceColumns), Given(StatusColumns)},
           title \in {"", "Invoices"} }
  \cup { Options("json", pretty, NoList, NoList, "") :
           pretty \in {Absent, "true", "false"} }
  \cup { Options("compact", Absent, fields, NoList, "") :
           fields \in {NoList,
                       Given(<< << "id" >>, << "customerRef", "companyName" >> >>),
                       Given(<< << "status" >>, << "note" >>, << "tags" >> >>)} }
  \cup { InvoicesListOptions(format) : format \in Formats }

\* what config.get('outputFormat') may hold
StoredFormats == {Absent, "json"}

RenderInit ==
  /\ ClientIdle
  /\ stdout = <<>>
  /\ configFormat \in StoredFormats
  /\ args \in [data : RenderData, options : RenderOptions]

\* the columns formatOutput will use when it draws a table
ColumnsUsed(data, options) ==
  IF OrElse(options.format, getOutputFormat) \in {"json", "compact"}
     \/ ~JTruthy(data) \/ Items(data) = << >>
  THEN << >>
  ELSE TableColumns(Items(data), options.columns)

\* formatOutput(data, options)
CallFormatOutput ==
  /\ pc = "idle"
  /\ \A i \in 1..Len(Items(args.data)) :
       \A c \in 1..Len(ColumnsUsed(args.data, args.options)) :
         LET col == ColumnsUsed(args.data, args.options)[c]
         IN  FormatterModelled(col.formatter,
                               getNestedValue(Items(args.data)[i], col.key))
  /\ op' = "formatOutput"
  /\ stdout' = stdout \o formatOutput(args.data, args.options)
  /\ pc' = "done"
  /\ UNCHANGED <<client, retval, library>>

RenderNext == CallFormatOutput

RenderSpec == RenderInit /\ [][RenderNext]_vars

(***************************************************************************)
(* getNestedValue called on its own, on a record and a dotted path.        *)
(***************************************************************************)
MaxPathLen == 2

\* the words a path is made of: keys of the records and the names of
\* properties that strings and arrays have
PathKeys ==
  { "id", "status", "customerRef", "companyName", "tags", "meta", "a",
    "note", "ok", "length", "0" }

Paths == UNION { [1..n -> PathKeys] : n \in 1..MaxPathLen }

ResolveInit ==
  /\ ClientIdle
  /\ stdout = <<>>
  /\ configFormat = Absent
  /\ args \in [obj : RecordPool, path : Paths]

\* const value = getNestedValue(item, key)
CallGetNestedValue ==
  /\ pc = "idle"
  /\ op' = "getNestedValue"
  /\ retval' = Value(getNestedValue(args.obj, args.path))
  /\ pc' = "done"
  /\ UNCHANGED <<client, stdout, library>>

ResolveNext == CallGetNestedValue

ResolveSpec == ResolveInit /\ [][ResolveNext]_vars

(***************************************************************************)
(* getAllPages called with params of the caller                            *)
(***************************************************************************)
BaseParams ==
  { NoParams, Params(7, NotSupplied, Absent), Params(NotSupplied, 0, Absent),
    Params(7, 50, "status=Open") }

PagingInit ==
  /\ configKey \in StoredKeys
  /\ envKey = NoKey
  /\ op = "none"
  /\ optMaxPages = NotSupplied
  /\ pc = "idle"
  /\ allResults = <<>>
  /\ page = 0
  /\ hasMore = FALSE
  /\ served = 0
  /\ lastPage = <<>>
  /\ lastHref = Absent
  /\ sent = <<>>
  /\ inflight = 0
  /\ retval = NoValue
  /\ lastError = NoError
  /\ stderr = <<>>
  /\ exitCode = -1
  /\ callerRan = FALSE
  /\ discarded = 0
  /\ stdout = <<>>
  /\ configFormat = Absent
  /\ \E p \in BaseParams : args = [NoArgs EXCEPT !.params = p]

PagingNext ==
  \/ \E opt \in MaxPagesOpts : getAllPages(opt)
  \/ getAllPagesLoop
  \/ RespondOk
  \/ RespondError
  \/ NoResponse
  \/ CallerContinue

PagingSpec == PagingInit /\ [][PagingNext]_vars

(***************************************************************************)
(* commands/auth.js (src/unnamed/part_002): auth login, auth set-key and   *)
(* auth logout.  Each command is one process; the configuration file and   *)
(* the environment outlive it, its memory and its streams do not.          *)
(***************************************************************************)
MinKeyLength == 20

\* variant: every non-empty key passes
validateApiKeyFormat_NonEmpty(apiKey) == Truthy(apiKey)

\* apiKey && typeof apiKey === 'string' && apiKey.length >= 20
validateApiKeyFormat(apiKey) == Truthy(apiKey) /\ Len(apiKey) >= MinKeyLength

\* config.set('apiKey', apiKey)
setApiKey(apiKey) == configKey' = apiKey

\* config.clear(): every stored setting goes back to its default
clearConfig ==
  /\ configKey' = NoKey
  /\ configFormat' = Absent

\* !!getApiKey()
isConfigured == Truthy(getApiKey)

\* the information sign U+2139 of info()
InfoSign == "<U+2139>"

\* error(message): console.error(chalk.red(ballot x), message)
error(message) == << Line(BallotX, message) >>

\* info(message): console.log(chalk.blue(information sign), message)
info(message) == << TextLine(InfoSign \o " " \o message) >>

\* the console.log lines of auth login when no key is given
SetupHelp ==
  << TextLine("\nCodat API Authentication Setup"),
     TextLine("--------------------------------------------------"),
     TextLine("\nTo get your API key:"),
     TextLine("  1. Go to https://app.codat.io/developers/api-keys"),
     TextLine("  2. Create a new API key or copy an existing one"),
     TextLine("  3. Run: codat auth login <your_api_key>"),
     TextLine("\nAlternatively, set the CODAT_API_KEY environment variable.") >>

\* the action of a command returns: the process ends with status 0
CommandEnds ==
  /\ exitCode' = 0
  /\ pc' = "ended"
  /\ UNCHANGED <<allResults, page, hasMore, discarded>>

\* what no auth command touches
AuthFrame ==
  UNCHANGED <<envKey, optMaxPages, served, lastPage, lastHref, sent, inflight,
              retval, lastError, callerRan>>

\* codat auth login [apiKey]
authLogin(apiKey) ==
  /\ pc = "idle"
  /\ op' = "auth login"
  /\ args' = [args EXCEPT !.data = apiKey]
  /\ IF ~Truthy(apiKey)
       THEN /\ stdout' = stdout \o SetupHelp
            /\ CommandEnds
            /\ UNCHANGED <<configKey, configFormat, stderr>>
       ELSE IF ~validateApiKeyFormat(apiKey)
         THEN /\ stderr' = stderr \o error("Invalid API key format")
              /\ stdout' = stdout
                   \o << TextLine("API key should be at least 20 characters long") >>
              /\ ProcessExit(1)
              /\ UNCHANGED <<configKey, configFormat>>
         ELSE /\ setApiKey(apiKey)
              /\ stdout' = stdout \o success("API key saved successfully")
                   \o << TextLine("Config location: <config path>") >>
              /\ CommandEnds
              /\ UNCHANGED <<configFormat, stderr>>
  /\ AuthFrame

\* codat auth set-key <apiKey>
authSetKey(apiKey) ==
  /\ pc = "idle"
  /\ op' = "auth set-key"
  /\ args' = [args EXCEPT !.data = apiKey]
  /\ IF ~validateApiKeyFormat(apiKey)
       THEN /\ stderr' = stderr \o error("Invalid API key format")
            /\ ProcessExit(1)
            /\ UNCHANGED <<configKey, configFormat, stdout>>
       ELSE /\ setApiKey(apiKey)
            /\ stdout' = stdout \o success("API key saved successfully")
            /\ CommandEnds
            /\ UNCHANGED <<configFormat, stderr>>
  /\ AuthFrame

\* codat auth logout
authLogout ==
  /\ pc = "idle"
  /\ op' = "auth logout"
  /\ IF ~isConfigured
       THEN /\ stdout' = stdout \o info("No credentials to remove")
            /\ UNCHANGED <<configKey, configFormat>>
       ELSE /\ clearConfig
            /\ stdout' = stdout \o success("Credentials removed")
                 \o << TextLine("You can log in again with: codat auth login") >>
  /\ CommandEnds
  /\ UNCHANGED <<stderr, args>>
  /\ AuthFrame

AuthCommands == {"auth login", "auth set-key", "auth logout"}

\* the keys given on the command line: none, the empty one, and keys of
\* MinKeyLength - 1, MinKeyLength and MinKeyLength + 1 characters
GivenKeys == {Absent, "", "sk_aaaaaaaaaaaaaaaa", "sk_bbbbbbbbbbbbbbbbb", "sk_cccccccccccccccccc"}

\* the shell starts the next command: a new process, with the configuration
\* file and the environment the last one left
NextCommand ==
  /\ pc \in {"ended", "exited"}
  /\ op \in AuthCommands
  /\ op' = "none"
  /\ pc' = "idle"
  /\ exitCode' = -1
  /\ stdout' = <<>>
  /\ stderr' = <<>>
  /\ discarded' = 0
  /\ args' = NoArgs
  /\ UNCHANGED <<configKey, configFormat, allResults, page, hasMore>>
  /\ AuthFrame

AuthInit ==
  /\ configKey \in StoredKeys
  /\ envKey \in EnvKeys
  /\ configFormat \in StoredFormats
  /\ op = "none"
  /\ optMaxPages = NotSupplied
  /\ pc = "idle"
  /\ allResults = <<>>
  /\ page = 0
  /\ hasMore = FALSE
  /\ served = 0
  /\ lastPage = <<>>
  /\ lastHref = Absent
  /\ sent = <<>>
  /\ inflight = 0
  /\ retval = NoValue
  /\ lastError = NoError
  /\ stderr = <<>>
  /\ exitCode = -1
  /\ callerRan = FALSE
  /\ discarded = 0
  /\ stdout = <<>>
  /\ args = NoArgs

AuthNext ==
  \/ \E apiKey \in GivenKeys : authLogin(apiKey)
  \/ \E apiKey \in GivenKeys \ {Absent} : authSetKey(apiKey)
  \/ authLogout
  \/ NextCommand
  \/ get
  \/ post
  \/ put
  \/ del
  \/ \E opt \in MaxPagesOpts : getAllPages(opt)
  \/ getAllPagesLoop
  \/ RespondOk
  \/ RespondError
  \/ NoResponse
  \/ CallerContinue

AuthSpec == AuthInit /\ [][AuthNext]_vars

(***************************************************************************)
(* Vocabulary of the properties                                            *)
(***************************************************************************)
SingleOps == {"get", "post", "put", "del"}

\* the api function has come back to the command, or the process has ended
Finished == pc \in {"returned", "done", "exited"}

\* the api function caught an error of a request that was on the wire
RequestFailed == lastError.kind \in {"response", "request"}

\* the labels handleApiError uses to name the kind of an error response
KindLabels ==
  {"Bad Request:", "Unauthorized:", "Forbidden:", "Not Found:",
   "Rate Limited:", "Server Error:"}
  \cup {"HTTP " \o ToString(st) \o ":" : st \in Statuses}

KindLines == {i \in 1..Len(stderr) : stderr[i].label \in KindLabels}

(***************************************************************************)
(* C1: a getAllPages call with maxPages = N issues at most N requests, all *)
(* of them GETs, whatever the service answers, and at most 10 when no      *)
(* maxPages is passed; and it never gets stuck before it has finished.     *)
(***************************************************************************)
ReadsBounded ==
  op = "getAllPages" =>
    /\ Len(sent) <= (IF optMaxPages = NotSupplied THEN 10 ELSE optMaxPages)
    /\ \A i \in 1..Len(sent) : sent[i].method = "GET"
    /\ (Finished \/ ENABLED Next)

\* the default bound is hit while the service still signals continuation
ReadsBoundedWitness ==
  /\ op = "getAllPages"
  /\ optMaxPages = NotSupplied
  /\ pc = "returned"
  /\ hasMore
  /\ Len(sent) = 10

(***************************************************************************)
(* C2: what a successful getAllPages returns is the concatenation of the   *)
(* pages received, in the order received: the records the service sent,    *)
(* numbered in sending order, each exactly once and in that order.         *)
(***************************************************************************)
ResultIsConcatenation ==
  (op = "getAllPages" /\ pc \in {"returned", "done"}) =>
    /\ retval.returned
    /\ Len(retval.value) = served
    /\ \A i \in 1..served : retval.value[i] = i

\* three pages of 2, 2 and 1 records have been collected and returned
ResultIsConcatenationWitness ==
  /\ op = "getAllPages"
  /\ pc = "returned"
  /\ Len(sent) = 3
  /\ served = 5
  /\ lastPage = <<5>>
  /\ Len(retval.value) = 5

(***************************************************************************)
(* C3: after a page with zero records arrives, getAllPages issues no       *)
(* further request: a request that follows a page follows a page that      *)
(* had records.                                                            *)
(***************************************************************************)
StopsAfterEmptyPage ==
  (op = "getAllPages" /\ pc = "await" /\ Len(sent) >= 2) => lastPage # << >>

(***************************************************************************)
(* C4: when a page request of getAllPages fails, the process stops there:  *)
(* no request is issued after the failure, the error is reported, and the  *)
(* records collected from the earlier pages are neither returned nor       *)
(* handed to the command's code.                                           *)
(***************************************************************************)
FailedTraversal ==
  (op = "getAllPages" /\ RequestFailed) =>
    /\ pc = "exited"
    /\ ~retval.returned
    /\ ~callerRan
    /\ Len(stderr) >= 1
    /\ inflight = 0

NoPartialResult ==
  /\ []FailedTraversal
  /\ [][(op = "getAllPages" /\ RequestFailed) => sent' = sent]_vars

\* a page request failed after records had been collected
NoPartialResultWitness ==
  /\ op = "getAllPages"
  /\ lastError.kind = "response"
  /\ pc = "exited"
  /\ discarded >= 3
  /\ Len(sent) >= 3

OneOutstanding ==
  op = "getAllPages" =>
    /\ inflight \in {0, 1}
    /\ (pc = "loop" => inflight = 0)
    /\ (pc \in {"loop", "await"} => Len(sent) - inflight = page - 1)

\* the third page request is outstanding, the first two have been answered
OneOutstandingWitness ==
  /\ op = "getAllPages"
  /\ pc = "await"
  /\ Len(sent) = 3
  /\ page = 3
  /\ inflight = 1

KindOfStatus ==
  lastError.kind = "response" =>
    /\ KindLines = {1}
    /\ stderr[1].label =
         (CASE lastError.status = 400 -> "Bad Request:"
            [] lastError.status = 401 -> "Unauthorized:"
            [] lastError.status = 403 -> "Forbidden:"
            [] lastError.status = 404 -> "Not Found:"
            [] lastError.status = 429 -> "Rate Limited:"
            [] lastError.status = 500 -> "Server Error:"
            [] lastError.status = 502 -> "Server Error:"
            [] lastError.status = 503 -> "Server Error:"
            [] lastError.status = 504 -> "HTTP 504:"
            [] lastError.status = 409 -> "HTTP 409:"
            [] OTHER -> "none")

\* a 504 answer has been reported
KindOfStatusWitness ==
  /\ lastError.kind = "response"
  /\ lastError.status = 504
  /\ pc = "exited"
  /\ stderr[1].label = "HTTP 504:"

(***************************************************************************)
(* C9: a 429 response whose body carries a retry-after value, 0 included,  *)
(* is reported as Rate Limited together with that value.                   *)
(***************************************************************************)
RetryAfterReported ==
  (lastError.kind = "response" /\ lastError.status = 429
   /\ lastError.data.retryAfter # NoRetryAfter) =>
    /\ stderr[1].label = "Rate Limited:"
    /\ \E i \in 1..Len(stderr) :
         stderr[i].label =
           "Retry after: " \o ToString(lastError.data.retryAfter) \o " seconds"

NetworkErrorCarriesMessage ==
  lastError.kind = "request" =>
    /\ stderr[1].label = "Network Error:"
    /\ \E i \in 1..Len(stderr) :
         lastError.message \in {stderr[i].label, stderr[i].text}

(***************************************************************************)
(* C11 as amended: a call that gets no response, a timeout included, is    *)
(* reported as a network error, never as another kind and never as a       *)
(* success, with the fixed text "No response from server" and a fixed      *)
(* hint; the message of the transport error is not part of the report.     *)
(***************************************************************************)
NetworkErrorReport ==
  lastError.kind = "request" =>
    /\ stderr =
         << [label |-> "Network Error:", text |-> "No response from server"],
            [label |-> "Check your internet connection and try again",
             text |-> ""] >>
    /\ KindLines = {}
    /\ pc = "exited"
    /\ exitCode = 1
    /\ ~retval.returned

\* a put ran into the client's timeout
NetworkErrorReportWitness ==
  /\ op = "put"
  /\ lastError.kind = "request"
  /\ lastError.message = "timeout of 30000ms exceeded"
  /\ stderr[1].label = "Network Error:"

\* what an empty listing looks like in the three formats
EmptyListings ==
  { << TextLine("No results found") >>, << JsonLine(<< "[", "]" >>) >>, << >> }

\* C12: when a request is answered with a successful status and a body that
\* is no structured data, the list command does not print an empty or
\* 'no results' listing, and an error is reported
UnparsedBodySurfaced ==
  (op = "get" /\ pc = "done" /\ retval.value.raw) =>
    /\ stdout \notin EmptyListings
    /\ Len(stderr) >= 1

(***************************************************************************)
(* Vocabulary of the buildQuery properties                                 *)
(***************************************************************************)
QueryBuilt == op = "buildQuery" /\ pc = "done"

RECURSIVE Occurrences(_)
\* the number of `&&` in a query string, counted from the left
Occurrences(chars) ==
  IF Len(chars) < 2 THEN 0
  ELSE IF chars[1] = "&" /\ chars[2] = "&"
       THEN 1 + Occurrences(SubSeq(chars, 3, Len(chars)))
       ELSE Occurrences(Tail(chars))

\* the run of characters `run` stands in chars from position start on
StandsAt(chars, run, start) ==
  /\ start + Len(run) - 1 <= Len(chars)
  /\ SubSeq(chars, start, start + Len(run) - 1) = run

Contains(chars, run) == \E start \in 1..Len(chars) : StandsAt(chars, run, start)

\* a literal as the query spells it: in double quotes exactly when a string
LiteralText(literal) ==
  IF literal.t = "string" THEN << "\"" >> \o literal.s \o << "\"" >>
  ELSE IF literal.t = "number" THEN NumberChars(literal.n)
  ELSE IF literal.b THEN << "true" >> ELSE << "false" >>

Rendering(c, symbol) == << c.field, symbol >> \o LiteralText(c.literal)

HasLiteral(c) == c.literal.t \notin {"null", "undefined"}

\* the criteria whose literal is neither null nor undefined, in input order
Supplied(criteria) == SelectSeq(criteria, HasLiteral)

RECURSIVE StartOf(_, _)
\* where the j-th of the renderings stands when two characters separate them
StartOf(parts, j) ==
  IF j = 1 THEN 1 ELSE StartOf(parts, j - 1) + Len(parts[j - 1]) + 2

\* C13: for every non-empty list of criteria the query string holds exactly
\* count-1 occurrences of `&&`, count being the number of criteria supplied,
\* and the criteria stand in it in input order
SeparatorsPerCriterion ==
  (/\ QueryBuilt
   /\ args.criteria # << >>
   /\ \A i \in 1..Len(args.criteria) : args.criteria[i].literal # JUndef) =>
    LET criteria == args.criteria
        out      == retval.value
    IN  /\ Occurrences(out) = Len(criteria) - 1
        /\ \E pos \in [1..Len(criteria) -> 1..Len(out)] :
             /\ \A i \in 1..Len(criteria) : out[pos[i]] = criteria[i].field
             /\ \A i \in 1..(Len(criteria) - 1) : pos[i] < pos[i + 1]

\* C13, amended: the query string is made of the renderings of the criteria
\* whose literal is neither null nor undefined, in input order, with one
\* `&&` between two neighbours and nothing else; so it holds k-1 occurrences
\* of `&&` for k >= 1 such criteria when no literal contains an ampersand
SeparatorsBetweenSupplied ==
  QueryBuilt =>
    LET sup   == Supplied(args.criteria)
        k     == Len(sup)
        out   == retval.value
        parts == [j \in 1..k |-> Rendering(sup[j], "=")]
        end   == IF k = 0 THEN 0 ELSE StartOf(parts, k) + Len(parts[k]) - 1
    IN  /\ Len(out) = end
        /\ \A j \in 1..k : StandsAt(out, parts[j], StartOf(parts, j))
        /\ \A j \in 2..k : StandsAt(out, << "&", "&" >>, StartOf(parts, j) - 2)
        /\ (k >= 1 /\ \A j \in 1..k : ~Contains(LiteralText(sup[j].literal), << "&" >>))
             => Occurrences(out) = k - 1

SeparatorsBetweenSuppliedWitness ==
  /\ QueryBuilt
  /\ Len(args.criteria) = 2
  /\ args.criteria[1].literal = JNull
  /\ args.criteria[2].literal = JNum(500)
  /\ retval.value = << args.criteria[2].field, "=", "5", "0", "0" >>

\* the symbol the query language has for an operator
Symbol(operator) ==
  CASE operator = "equals"       -> "="
    [] operator = "contains"     -> "~"
    [] operator = "greater-than" -> ">"
    [] operator = "less-than"    -> "<"

ScenarioB ==
  << [field |-> "status", operator |-> "equals",
      literal |-> JStr(<< "O", "p", "e", "n" >>)],
     [field |-> "totalAmount", operator |-> "greater-than",
      literal |-> JNum(500)] >>

EmptyFiltersEmptyQuery ==
  (QueryBuilt /\ (args.filters \in {JUndef, JNull} \/ args.filters.keys = << >>))
    => /\ retval.returned
       /\ retval.value = << >>
       /\ Text(retval.value) = ""

EmptyFiltersEmptyQueryWitness ==
  /\ QueryBuilt
  /\ args.filters = JObj(<< >>, << >>)
  /\ retval.value = << >>

(***************************************************************************)
(* Vocabulary of the formatOutput properties                               *)
(***************************************************************************)
Rendered == op = "formatOutput" /\ pc = "done"

\* the format formatOutput goes by
FormatUsed == OrElse(args.options.format, OrElse(configFormat, "table"))

IsDigit(c)    == \E d \in 0..9 : ToString(d) = c
DigitValue(c) == CHOOSE d \in 0..9 : ToString(d) = c

RECURSIVE SkipBlanks(_, _)
SkipBlanks(chars, pos) ==
  IF pos <= Len(chars) /\ chars[pos] \in {" ", "\n"}
  THEN SkipBlanks(chars, pos + 1) ELSE pos

RECURSIVE ReadString(_, _, _)
\* the string whose first character stands at pos, up to its closing quote
ReadString(chars, pos, acc) ==
  IF chars[pos] = "\"" THEN [v |-> acc, next |-> pos + 1]
  ELSE IF chars[pos] = "\\"
       THEN ReadString(chars, pos + 2,
                       Append(acc, IF chars[pos + 1] = "n" THEN "\n"
                                   ELSE chars[pos + 1]))
       ELSE ReadString(chars, pos + 1, Append(acc, chars[pos]))

RECURSIVE ReadDigits(_, _, _)
ReadDigits(chars, pos, acc) ==
  IF pos <= Len(chars) /\ IsDigit(chars[pos])
  THEN ReadDigits(chars, pos + 1, acc * 10 + DigitValue(chars[pos]))
  ELSE [v |-> acc, next |-> pos]

RECURSIVE ParseValue(_, _)
RECURSIVE ReadItems(_, _, _)
RECURSIVE ReadMembers(_, _, _, _)

\* the JSON value that starts at pos, and the position after it
ParseValue(chars, from) ==
  LET pos == SkipBlanks(chars, from)
      c   == chars[pos]
  IN  CASE c = "null"  -> [v |-> JNull, next |-> pos + 1]
        [] c = "true"  -> [v |-> JBool(TRUE), next |-> pos + 1]
        [] c = "false" -> [v |-> JBool(FALSE), next |-> pos + 1]
        [] c = "\""    ->
             LET r == ReadString(chars, pos + 1, << >>)
             IN  [v |-> JStr(r.v), next |-> r.next]
        [] c = "-"     ->
             LET r == ReadDigits(chars, pos + 1, 0)
             IN  [v |-> JNum(0 - r.v), next |-> r.next]
        [] c = "["     ->
             LET p == SkipBlanks(chars, pos + 1)
             IN  IF chars[p] = "]" THEN [v |-> JArr(<< >>), next |-> p + 1]
                 ELSE ReadItems(chars, p, << >>)
        [] c = "{"     ->
             LET p == SkipBlanks(chars, pos + 1)
             IN  IF chars[p] = "}"
                 THEN [v |-> JObj(<< >>, << >>), next |-> p + 1]
                 ELSE ReadMembers(chars, p, << >>, << >>)
        [] OTHER       ->
             LET r == ReadDigits(chars, pos, 0)
             IN  [v |-> JNum(r.v), next |-> r.next]

\* the items of an array from pos on, up to its closing bracket
ReadItems(chars, pos, acc) ==
  LET r == ParseValue(chars, pos)
      p == SkipBlanks(chars, r.next)
  IN  IF chars[p] = "," THEN ReadItems(chars, p + 1, Append(acc, r.v))
      ELSE [v |-> JArr(Append(acc, r.v)), next |-> p + 1]

\* the members of an object from pos on, up to its closing brace
ReadMembers(chars, pos, keys, kids) ==
  LET k == SkipBlanks(chars, pos)
      r == ParseValue(chars, k + 4)
      p == SkipBlanks(chars, r.next)
  IN  IF chars[p] = ","
      THEN ReadMembers(chars, p + 1, Append(keys, chars[k + 1]),
                       Append(kids, r.v))
      ELSE [v |-> JObj(Append(keys, chars[k + 1]), Append(kids, r.v)),
            next |-> p + 1]

\* JSON.parse(text)
JSONparse(chars) == ParseValue(chars, 1).v

\* C16: a value rendered in json format with pretty=false is one JSON
\* document on one line, and parsing it gives back the value: nothing is
\* dropped or summarized
JsonRoundTrip ==
  (/\ Rendered
   /\ FormatUsed = "json"
   /\ args.options.pretty = "false"
   /\ args.data # JUndef) =>
    /\ Len(stdout) = 1
    /\ stdout[1].kind = "json"
    /\ \A i \in 1..Len(stdout[1].chars) : stdout[1].chars[i] # " "
    /\ JSONparse(stdout[1].chars) = args.data

JsonRoundTripWitness ==
  /\ Rendered
  /\ FormatUsed = "json"
  /\ args.options.pretty = "false"
  /\ args.data = JArr(<< NestedRecord, WideRecord >>)
  /\ JSONparse(stdout[1].chars) = args.data

EmptyCollection == JArr(<< >>)
NoResultsNotice == << TextLine("No results found") >>

\* C17: an empty collection of records is rendered as the 'no results'
\* notice in table format and in compact format, and as an empty array in
\* json format
EmptyCollectionNotice ==
  (Rendered /\ args.data = EmptyCollection) =>
    /\ FormatUsed \notin {"json", "compact"} => stdout = NoResultsNotice
    /\ FormatUsed = "compact" => stdout = NoResultsNotice
    /\ FormatUsed = "json" =>
         (Len(stdout) = 1 /\ Text(stdout[1].chars) = "[]")

\* C17, amended: an empty collection of records is rendered as the
\* 'no results' notice in table format, as an empty array in json format,
\* and as nothing at all in compact format
EmptyCollectionByFormat ==
  (Rendered /\ args.data = EmptyCollection) =>
    /\ FormatUsed \notin {"json", "compact"} => stdout = NoResultsNotice
    /\ FormatUsed = "compact" => stdout = << >>
    /\ FormatUsed = "json" =>
         (Len(stdout) = 1 /\ Text(stdout[1].chars) = "[]")

EmptyCollectionByFormatWitness ==
  /\ Rendered
  /\ args.data = EmptyCollection
  /\ FormatUsed = "compact"
  /\ stdout = << >>

\* a table has been drawn: formatOutput went by the table format and had
\* at least one item
TableDrawn ==
  /\ Rendered
  /\ FormatUsed \notin {"json", "compact"}
  /\ JTruthy(args.data)
  /\ Items(args.data) # << >>

\* the grid of the table that was drawn
Grid == stdout[Len(stdout) - 1].rows

\* C18: with no column definitions the columns of the table are the
\* top-level keys of the first record, in their order, without the keys
\* whose value is a nested record that is no array; keys with an array, a
\* scalar or null are kept
InferredColumns ==
  (/\ TableDrawn
   /\ ~args.options.columns.given
   /\ Items(args.data)[1].t = "object") =>
    LET first  == Items(args.data)[1]
        header == Grid[1]
        Kept(i) == first.kids[i].t \in
                     {"null", "boolean", "number", "string", "array"}
    IN  /\ \A i \in 1..Len(first.keys) :
             Kept(i) <=> \E c \in 1..Len(header) : header[c] = first.keys[i]
        /\ \A c \in 1..Len(header) :
             \E i \in 1..Len(first.keys) : header[c] = first.keys[i]
        /\ \A c, d \in 1..Len(header) :
             c < d =>
               \E i, j \in 1..Len(first.keys) :
                 i < j /\ header[c] = first.keys[i] /\ header[d] = first.keys[j]

InferredColumnsWitness ==
  /\ TableDrawn
  /\ ~args.options.columns.given
  /\ Items(args.data)[1] = NestedRecord
  /\ Grid[1] = << "id", "tags", "lines", "ok", "note" >>

\* the columns of the table that was drawn
ColumnsDrawn == TableColumns(Items(args.data), args.options.columns)

\* C19: n >= 1 records drawn as a table give one header row and n data
\* rows in input order, each with one cell per column, and then a count
\* line that reads '1 result' for n = 1 and 'n results' otherwise
TableShape ==
  TableDrawn =>
    LET items == Items(args.data)
        n     == Len(items)
    IN  /\ Len(stdout) = (IF args.options.title # "" THEN 3 ELSE 2)
        /\ stdout[Len(stdout) - 1].kind = "table"
        /\ Len(Grid) = n + 1
        /\ \A r \in 1..(n + 1) : Len(Grid[r]) = Len(ColumnsDrawn)
        /\ \A c \in 1..Len(ColumnsDrawn) :
             Grid[1][c] = HeaderCell(ColumnsDrawn[c])
        /\ \A r \in 1..n : \A c \in 1..Len(ColumnsDrawn) :
             Grid[r + 1][c] = Cell(items[r], ColumnsDrawn[c])
        /\ stdout[Len(stdout)].kind = "line"
        /\ stdout[Len(stdout)].text =
             (IF n = 1 THEN "1 result" ELSE ToString(n) \o " results")

TableShapeWitness ==
  /\ TableDrawn
  /\ args.data = JArr(<< PaidInvoice, OpenInvoice >>)
  /\ args.options.columns = Given(StatusColumns)
  /\ Grid = << << "id", "Status" >>, << "1", "Paid" >>, << "2", "Open" >> >>
  /\ stdout[Len(stdout)].text = "2 results"

\* C20: in a table every cell whose column path leads to a missing or null
\* value of the record shows the placeholder, whether or not the column has
\* a formatter
MissingShowsPlaceholder ==
  TableDrawn =>
    \A r \in 1..Len(Items(args.data)) : \A c \in 1..Len(ColumnsDrawn) :
      getNestedValue(Items(args.data)[r], ColumnsDrawn[c].key).t
          \in {"null", "undefined"}
        => Grid[r + 1][c] = Placeholder

(***************************************************************************)
(* Vocabulary of the getNestedValue properties                             *)
(***************************************************************************)
Resolved == op = "getNestedValue" /\ pc = "done"

\* the value the first n segments of a path lead to, by the walk the
\* specification describes: a segment is looked up in a nested record only
RECURSIVE Walk(_, _, _)
Walk(obj, path, n) ==
  IF n = 0 THEN obj
  ELSE LET current == Walk(obj, path, n - 1)
       IN  IF current.t \in {"object", "array"}
           THEN Member(current, path[n]) ELSE JUndef

\* a segment of the path has to be looked up in a value that is no nested
\* record and no array
HitsScalar(obj, path) ==
  \E n \in 0..(Len(path) - 1) :
    Walk(obj, path, n).t \in {"string", "number", "boolean", "null", "undefined"}

\* C21: when a segment of the path has to be looked up in a string, a
\* number, a boolean, null or a missing value, getNestedValue returns
\* 'absent' and raises no exception
ResolutionFailsClosed ==
  (Resolved /\ HitsScalar(args.obj, args.path)) =>
    /\ retval.returned
    /\ retval.value = JUndef

\* the pair `field=value` of a record, the value being what the resolver
\* of the table format gives for the field
Pair(item, field) ==
  << Dotted(field), "=" >> \o ValueChars(getNestedValue(item, field))

RECURSIVE PairStart(_, _)
\* where the j-th of the pairs stands when one character separates them
PairStart(pairs, j) ==
  IF j = 1 THEN 1 ELSE PairStart(pairs, j - 1) + Len(pairs[j - 1]) + 1

\* the line is made of the pairs of the fields, in the order of the field
\* list, with one blank between two neighbours and nothing else
PairsLine(line, item, fields) ==
  LET k     == Len(fields)
      pairs == [j \in 1..k |-> Pair(item, fields[j])]
      end   == IF k = 0 THEN 0 ELSE PairStart(pairs, k) + Len(pairs[k]) - 1
  IN  /\ line.kind = "line"
      /\ line.text = Text(line.chars)
      /\ Len(line.chars) = end
      /\ \A j \in 1..k : StandsAt(line.chars, pairs[j], PairStart(pairs, j))
      /\ \A j \in 2..k : line.chars[PairStart(pairs, j) - 1] = " "

HasScalar(item, key) ==
  /\ item.t = "object"
  /\ \E i \in 1..Len(item.keys) : item.keys[i] = key
  /\ Member(item, key).t \in {"number", "string"}

\* C23: a list command run with --format compact prints one line per
\* record that holds `id=<id>`, and `status=<status>` for a record with a
\* status, so that the line of a paid invoice holds `status=Paid`
ListCompactShowsPairs ==
  (/\ Rendered
   /\ args.options = InvoicesListOptions("compact")
   /\ args.data.t = "array") =>
    LET items == Items(args.data)
    IN  /\ Len(stdout) = Len(items)
        /\ \A r \in 1..Len(items) : \A key \in {"id", "status"} :
             HasScalar(items[r], key) =>
               Contains(stdout[r].chars, Pair(items[r], << key >>))

\* C24: when CODAT_API_KEY is set and a different key is stored in the
\* config, every request carries the Authorization header of the
\* environment variable's key
EnvironmentOverridesConfig ==
  (envKey # NoKey /\ configKey # NoKey /\ envKey # configKey) =>
    \A i \in 1..Len(sent) : sent[i].auth = AuthHeader(envKey)

\* C25: a command that succeeds with --format json writes the JSON
\* serialization of the response data to standard output and nothing else,
\* so that standard output parses as JSON
JsonOutputOnly ==
  (pc = "done" /\ op \in {"get", "post", "put"} /\ args.format = "json"
   /\ ~retval.value.raw) =>
    /\ Len(stdout) = 1
    /\ stdout[1].kind = "json"
    /\ JSONparse(stdout[1].chars) =
         (IF op = "get"
          THEN JArr([i \in 1..Len(ResultsOf(retval.value)) |->
                       Company(ResultsOf(retval.value)[i])])
          ELSE BodyValue(retval.value))

\* a command has failed: its request got an error status or no response
CommandFailed == RequestFailed

\* C26: a command whose request fails with an error status or without a
\* response ends the process with exit status 1, has written nothing to
\* standard output by then and writes nothing afterwards; a process that
\* exits with status 1 has had a failure or no API key, so a command whose
\* requests all succeed does not exit with status 1
FailureExitsWithOne ==
  /\ [](CommandFailed =>
          /\ pc = "exited"
          /\ exitCode = 1
          /\ stdout = << >>
          /\ ~callerRan)
  /\ [][CommandFailed => (stdout' = stdout /\ exitCode' = exitCode)]_vars
  /\ [](exitCode = 1 => (lastError # NoError \/ getApiKey = NoKey))
  /\ [](pc \in {"returned", "done"} => (lastError = NoError /\ exitCode # 1))

FailureExitsWithOneWitness ==
  /\ op = "post"
  /\ CommandFailed
  /\ lastError.kind = "response"
  /\ lastError.status = 404
  /\ exitCode = 1
  /\ stdout = << >>

\* C27: in a getAllPages call the k-th request carries page = k, whatever
\* `page` the caller's params hold, and every request carries the same
\* pageSize (the caller's, or 100 when the caller gave none) and the
\* caller's other params
PageCounterInParams ==
  op = "getAllPages" =>
    \A k \in 1..Len(sent) :
      /\ sent[k].method = "GET"
      /\ sent[k].params.page = k
      /\ sent[k].params.pageSize = sent[1].params.pageSize
      /\ sent[k].params.pageSize \in {args.params.pageSize, DefaultPageSize}
      /\ sent[k].params.query = args.params.query

PageCounterInParamsWitness ==
  /\ op = "getAllPages"
  /\ args.params = Params(7, 50, "status=Open")
  /\ Len(sent) = 3
  /\ sent[3].params = Params(3, 50, "status=Open")

\* the last 2xx page carried a continuation marker that is neither absent nor null
CarriesMarker == lastHref # Absent /\ lastHref # "null"

\* the traversal stands at the test of its loop after k answered pages
AfterPage(k) == op = "getAllPages" /\ pc = "loop" /\ Len(sent) = k /\ inflight = 0

\* C28: in getAllPages no read call follows a page whose continuation marker
\* is absent or null; while the last page carried a marker and fewer than
\* maxPages calls were made, the next step of the loop is the next call and
\* never the return; so a traversal that returned after fewer than maxPages
\* calls made exactly as many calls as the index of the first page without a
\* marker.
MarkerDrivesPaging ==
  /\ [][\A k \in 1..MaxPagesOpt + DefaultMaxPages :
          (AfterPage(k) /\ ~CarriesMarker) => sent' = sent]_vars
  /\ [][\A k \in 1..MaxPagesOpt + DefaultMaxPages :
          (AfterPage(k) /\ CarriesMarker /\ k < maxPages /\ pc' \in {"await", "returned"})
            => /\ Len(sent') = k + 1
               /\ sent'[k + 1].params.page = k + 1
               /\ pc' = "await"]_vars
  /\ [](op = "getAllPages" /\ pc \in {"returned", "done"} /\ Len(sent) < maxPages
          => Len(sent) >= 1 /\ ~CarriesMarker)
  /\ [](op = "getAllPages" => Len(sent) <= maxPages)

\* a traversal of three calls that returned because its third page, the first
\* without a usable marker, carried a null marker, with maxPages larger
MarkerDrivesPagingWitness ==
  /\ op = "getAllPages"
  /\ pc = "returned"
  /\ Len(sent) = 3
  /\ maxPages > 3
  /\ lastHref = "null"

ApiFunctions == SingleOps \cup {"getAllPages"}

\* every request sent carries the Authorization header of the available key
SentWithKey ==
  sent # << >> =>
    /\ getApiKey # NoKey
    /\ getApiKey \in {configKey, envKey}
    /\ \A i \in 1..Len(sent) : sent[i].auth = AuthHeader(getApiKey)

\* an api function was called with no key available and has left its first step
CalledWithoutKey ==
  op \in ApiFunctions /\ getApiKey = NoKey /\ pc \notin {"idle", "loop"}

\* getAllPages was called with a page bound that lets it make no request
NoPageAsked == op = "getAllPages" /\ maxPages <= 0

KeyCommands == {"auth login", "auth set-key"}

\* this step is auth login or auth set-key run with the key
KeyCommandStep(key) ==
  pc = "idle" /\ op' \in KeyCommands /\ args'.data = key

\* the step ends the process with status 1 and leaves the stored configuration
Rejected ==
  /\ pc' = "exited"
  /\ exitCode' = 1
  /\ configKey' = configKey
  /\ configFormat' = configFormat

\* C30 as stated: auth login and auth set-key with a key shorter than 20
\* characters are rejected with exit status 1 and leave the stored
\* configuration unchanged; with a key of at least 20 characters the stored
\* key becomes exactly that key
ShortKeyRejected ==
  [][\A key \in GivenKeys \ {Absent} :
       KeyCommandStep(key) =>
         /\ Len(key) < MinKeyLength => Rejected
         /\ Len(key) >= MinKeyLength => configKey' = key]_vars

\* C30 amended: as stated for every key of at least one character; the
\* empty key is rejected with status 1 by auth set-key, while auth login
\* takes it for no key at all, prints the setup help and ends with status 0,
\* the stored configuration unchanged in both cases
NonEmptyShortKeyRejected ==
  [][\A key \in GivenKeys \ {Absent} :
       KeyCommandStep(key) =>
         /\ (Len(key) < MinKeyLength /\ ~(key = "" /\ op' = "auth login"))
              => Rejected
         /\ (key = "" /\ op' = "auth login")
              => /\ pc' = "ended"
                 /\ exitCode' = 0
                 /\ stderr' = stderr
                 /\ configKey' = configKey
                 /\ configFormat' = configFormat
         /\ Len(key) >= MinKeyLength => configKey' = key]_vars

\* auth login with a key of 19 characters has ended with status 1 and the
\* key stored before is still there
NonEmptyShortKeyRejectedWitness ==
  /\ op = "auth login"
  /\ Len(args.data) = MinKeyLength - 1
  /\ pc = "exited"
  /\ exitCode = 1
  /\ configKey = "keyA"
  /\ configFormat = "json"

====
